---- MODULE Spec2Model ----
(***************************************************************************)
(* Chirp: asynchronous dispatch of e-mail and SMS messages.                *)
(*                                                                         *)
(* Admission handlers (send-mail, send-test-email, send-sms) create a      *)
(* message record, add a BullMQ job and increment the organization's usage *)
(* counter.  The worker process runs one processor per job: it loads the   *)
(* message and its organization, calls the provider and writes the status. *)
(* BullMQ (job states, attempts, backoff, stalled-job recovery) and        *)
(* Mongoose (save() writes the modified paths only) are modelled as the    *)
(* code configures and calls them.                                         *)
(***************************************************************************)
EXTENDS Integers, Sequences, FiniteSets, TLC

\* ---------------------------------------------------------------- bounds
MaxReqs == 2          \* concurrent admission requests (one message each)
MaxJobs == 1          \* of these, the requests whose jobs the worker is followed on
MaxFaults == 4        \* rejected store or queue operations and worker crashes, over a run
MaxWindows == 1       \* quota windows that elapse during a run
MaxDrops == 2         \* connections to Redis lost during a run

\* ------------------------------------------------------ program constants
QuotaLimit == 200     \* "totalEmailsSent >= 200"
EmailMax == 10        \* emailLimiter, production: max 10 per minute
SmsMax == 5           \* smsLimiter, production: max 5 per minute
Attempts == 3         \* job option attempts: 3
BackoffDelay == 1000  \* job option backoff.delay, in ms
Concurrency == 5      \* worker option concurrency: 5
MaxStalledCount == 1  \* BullMQ worker default, no maxStalledCount is passed

Req == 1..MaxReqs
Kinds == {"send-mail", "send-test-email", "send-sms"}
Terminal == {"sent", "failed"}
Outcomes == {"ok", "transient", "terminal"}

VARIABLES
  usage,      \* organization.usage: totalEmailsSent, totalSMSSent
  orgExists,  \* the organization document is in the database
  req,        \* admission requests: kind, pc, snapshot of the counter, window of
              \* arrival, whether the payload satisfies the schema, response
  status,     \* Email/SMS documents: "absent" or the stored status
  job,        \* the BullMQ job of message m
  proc,       \* the processor invocation working on job m: its position, the
              \* status it loaded, the status of its document as last saved,
              \* the result of its provider call
  delivered,  \* history: number of provider calls made for message m
  seen,       \* history: the results those calls returned
  faults,     \* faults injected so far
  window,     \* the quota window (day) the clock is in
  unawaited,  \* a save of message m was started and not awaited
  orgStatus,  \* organization.status
  rate,       \* the current minute: hits in the store of smsLimiter, and the
              \* requests that reached send-mail and send-sms
  redis,      \* the ioredis client: its status, the isConnected flag of the
              \* module, and the connections it lost so far
  mongo,      \* the mongoose connection
  boot,       \* startWorker: its position
  probe,      \* the last response of GET /ready
  fields      \* Email/SMS documents: the paths other than status (to, from,
              \* subject, content, organization, createdAt)

\* The connections of a process.
conn == <<redis, mongo, boot, probe>>

vars == <<usage, orgExists, req, status, job, proc, delivered, seen, faults,
          window, unawaited, orgStatus, rate, redis, mongo, boot, probe, fields>>

ClassOf(k) == IF k = "send-sms" THEN "sms" ELSE "email"
Class(m) == ClassOf(req[m].kind)

NoJob == [state |-> "none", attemptsMade |-> 0, stalled |-> 0, delay |-> 0]
IdleProc == [pc |-> "idle", loaded |-> "absent", orig |-> "absent", outcome |-> "none"]
NewReq == [kind |-> "send-mail", pc |-> "idle", snap |-> 0, win |-> 0,
           valid |-> TRUE, resp |-> "none"]

\* A new organization: the schema defaults.
NewUsage == [totalEmailsSent |-> 0, totalSMSSent |-> 0]
OrgStatuses == {"pending", "active", "suspended"}

\* The start of a minute.
NoRate == [hits |-> 0, email |-> 0, sms |-> 0]

\* A process whose connections are up and whose workers run.  The
\* specifications of admission and of the worker start here and do not
\* follow the connections: a handler draws what isRedisConnected() returns.
Connected ==
  /\ redis = [status |-> "ready", isConnected |-> TRUE, drops |-> 0]
  /\ mongo = "connected"
  /\ boot = "created"
  /\ probe = [status |-> "none", mongodb |-> FALSE, redis |-> FALSE]

Init ==
  /\ usage = NewUsage
  /\ orgExists = TRUE
  /\ req = [r \in Req |-> NewReq]
  /\ status = [m \in Req |-> "absent"]
  /\ fields = [m \in Req |-> "absent"]
  /\ job = [m \in Req |-> NoJob]
  /\ proc = [m \in Req |-> IdleProc]
  /\ delivered = [m \in Req |-> 0]
  /\ seen = [m \in Req |-> {}]
  /\ faults = 0
  /\ window = 0
  /\ unawaited = [m \in Req |-> FALSE]
  /\ orgStatus = "active"
  /\ rate = NoRate
  /\ Connected

\* ------------------------------------------------------------ fault inputs
\* The results a store (MongoDB) or queue (Redis) operation can have.
Results == IF faults < MaxFaults THEN {TRUE, FALSE} ELSE {TRUE}
Fault(ok) == IF ok THEN faults ELSE faults + 1

\* The response of a handler whose try block threw.
ErrorResponse(k) == IF k = "send-test-email" THEN "fail302" ELSE "500"
SuccessResponse(k) == IF k = "send-test-email" THEN "ok302" ELSE "200"

Finish(r, resp) == [req EXCEPT ![r].pc = "done", ![r].resp = resp]

\* ------------------------------------------------------------- admission
\* validateApiKey loads the organization document (401 when there is none);
\* the handler later reads the counter from it.  The dashboard request is
\* authenticated by its session and loads the organization in the handler.
\* The routes that mount a per-organization limiter before the handler:
\* the SMS router mounts smsLimiter, the mail router mounts none
\* (emailLimiter is exported and used nowhere).
Limited(k) == k = "send-sms"

\* express-rate-limit: every request counts a hit; a request whose hit is
\* above max is answered 429 by the limiter.
Blocked(k, hits) == Limited(k) /\ hits + 1 > SmsMax

\* The minute's counts after a request of kind k went through the chain.
Counted(k, hits) ==
  [hits  |-> IF Limited(k) THEN hits + 1 ELSE hits,
   email |-> IF k = "send-mail" THEN rate.email + 1 ELSE rate.email,
   sms   |-> IF k = "send-sms" /\ ~Blocked(k, hits) THEN rate.sms + 1 ELSE rate.sms]

\* The middleware chain of the route: validateApiKey (no test of
\* organization.status), then the limiter the route mounts.
Authenticate(r, k) ==
  /\ req[r].pc = "idle"
  /\ \A q \in Req : q < r => req[q].pc # "idle"
  /\ IF ~(orgExists \/ k = "send-test-email")
       THEN /\ req' = [req EXCEPT ![r].kind = k, ![r].pc = "done",
                                  ![r].resp = "401", ![r].win = window]
            /\ UNCHANGED rate
     ELSE IF Blocked(k, rate.hits)
       THEN /\ req' = [req EXCEPT ![r].kind = k, ![r].pc = "done",
                                  ![r].resp = "429rate", ![r].win = window]
            /\ rate' = Counted(k, rate.hits)
       ELSE /\ req' = [req EXCEPT ![r].kind = k, ![r].pc = "authed",
                                  ![r].snap = usage.totalEmailsSent,
                                  ![r].win = window]
            /\ rate' = Counted(k, rate.hits)
  /\ UNCHANGED <<usage, orgExists, status, job, proc, delivered, seen, faults, window, unawaited>>
  /\ UNCHANGED orgStatus
  /\ UNCHANGED <<conn, fields>>

\* The quota check of send-mail, on the document loaded by the middleware.
QuotaExceeded(snap) == snap >= QuotaLimit

\* send-sms destructures {err, value} from Joi's {error, value}: err is
\* always undefined and the 400 branch is never taken.
\* send-test-email reads organization._id of the document it looked up.
Rejects(k, redisOk, valid, snap) ==
  CASE k = "send-mail" ->
         IF ~redisOk THEN "503"
         ELSE IF ~valid THEN "400"
         ELSE IF QuotaExceeded(snap) THEN "429"
         ELSE "none"
    [] k = "send-test-email" -> IF orgExists THEN "none" ELSE "fail302"
    [] OTHER -> "none"

\* Mutation: the record is created before the quota check.
CreatesBeforeQuota(rej) == rej \in {"none", "429"}

\* Email.create and SMS.create follow the checks: a request that a check
\* answered has returned before the record is created.
Creates(rej) == rej = "none"

\* The payloads a request of kind k can carry, by whether they satisfy the
\* schema of its route (send-test-email applies no schema to its body).
Payloads(k) == IF k = "send-test-email" THEN {TRUE} ELSE BOOLEAN

CreateMessage(r) ==
  /\ req[r].pc = "authed"
  /\ \E redisOk \in BOOLEAN, valid \in Payloads(req[r].kind), ok \in Results :
       LET rej == Rejects(req[r].kind, redisOk, valid, req[r].snap) IN
       IF rej # "none"
         THEN /\ ok
              /\ req' = [Finish(r, rej) EXCEPT ![r].valid = valid]
              /\ status' = IF Creates(rej) THEN [status EXCEPT ![r] = "queued"]
                                          ELSE status
              /\ fields' = IF Creates(rej) THEN [fields EXCEPT ![r] = "created"]
                                          ELSE fields
              /\ UNCHANGED faults
         ELSE /\ faults' = Fault(ok)
              /\ IF ok
                   THEN /\ status' = [status EXCEPT ![r] = "queued"]
                        /\ fields' = [fields EXCEPT ![r] = "created"]
                        /\ req' = [req EXCEPT ![r].pc = "created", ![r].valid = valid]
                   ELSE /\ req' = [Finish(r, ErrorResponse(req[r].kind))
                                     EXCEPT ![r].valid = valid]
                        /\ UNCHANGED <<status, fields>>
  /\ UNCHANGED <<usage, orgExists, job, proc, delivered, seen, window, unawaited>>
  /\ UNCHANGED <<orgStatus, rate>>
  /\ UNCHANGED conn

\* Mutation: the job is added before the record is created.
EnqueuesBeforeCreate(pc) == pc \in {"authed", "created"}

\* queue.add follows the awaited create of the record, whose id it carries.
Enqueues(pc) == pc = "created"

\* queue.add: awaited by send-mail and send-test-email, not by send-sms.
EnqueueJob(r) ==
  /\ Enqueues(req[r].pc)
  /\ \E ok \in Results :
       /\ faults' = Fault(ok)
       /\ job' = IF ok THEN [job EXCEPT ![r].state = "waiting"] ELSE job
       /\ req' = IF ok \/ req[r].kind = "send-sms"
                   THEN [req EXCEPT ![r].pc = "added"]
                   ELSE Finish(r, ErrorResponse(req[r].kind))
  /\ UNCHANGED <<usage, orgExists, status, proc, delivered, seen, window, unawaited>>
  /\ UNCHANGED <<orgStatus, rate>>
  /\ UNCHANGED <<conn, fields>>

IncUsage(k) ==
  IF k = "send-sms"
    THEN [usage EXCEPT !.totalSMSSent = @ + 1]
    ELSE [usage EXCEPT !.totalEmailsSent = @ + 1]

\* Organization.findByIdAndUpdate($inc), then the success response; the
\* update of a document that is gone changes nothing and does not reject.
UpdateUsage(r) ==
  /\ req[r].pc = "added"
  /\ \E ok \in Results :
       /\ faults' = Fault(ok)
       /\ usage' = IF ok /\ orgExists THEN IncUsage(req[r].kind) ELSE usage
       /\ req' = Finish(r, IF ok THEN SuccessResponse(req[r].kind)
                                 ELSE ErrorResponse(req[r].kind))
  /\ UNCHANGED <<orgExists, status, job, proc, delivered, seen, window, unawaited>>
  /\ UNCHANGED <<orgStatus, rate>>
  /\ UNCHANGED <<conn, fields>>

\* ------------------------------------------------------------- BullMQ
\* The processors of class c running in the worker process.
Running(c) == {m \in DOMAIN proc : proc[m].pc \notin {"idle", "dead"} /\ Class(m) = c}

\* Mutation: a slot too many.
SlotFreeOffByOne(c) == Cardinality(Running(c)) <= Concurrency

\* The worker of class c fetches a job while fewer than concurrency
\* processors of its are running.
SlotFree(c) == Cardinality(Running(c)) < Concurrency

\* backoff {type: 'exponential', delay}: delay * 2^(attemptsMade - 1)
Pow2(n) == IF n <= 0 THEN 1 ELSE IF n = 1 THEN 2 ELSE IF n = 2 THEN 4 ELSE 8
Backoff(attemptsMade) == BackoffDelay * Pow2(attemptsMade - 1)

\* Mutation: one retry too many.
RetriesLeftOffByOne(attemptsMade) == attemptsMade <= Attempts

\* A job whose processor threw is retried while attempts remain.
RetriesLeft(attemptsMade) == attemptsMade < Attempts

\* The processor of job j threw: retry after the backoff delay, or fail.
MoveToFailed(j) ==
  LET n == j.attemptsMade + 1 IN
  IF RetriesLeft(n)
    THEN [j EXCEPT !.state = "delayed", !.attemptsMade = n, !.delay = Backoff(n)]
    ELSE [j EXCEPT !.state = "failed", !.attemptsMade = n, !.delay = 0]

\* The processor of job j returned a value.
MoveToCompleted(j) == [j EXCEPT !.state = "completed", !.delay = 0]

\* A stalled job goes back to wait while its stalled counter allows it.
Recoverable(stalled) == stalled < MaxStalledCount

MoveStalled(j) ==
  IF Recoverable(j.stalled)
    THEN [j EXCEPT !.state = "waiting", !.stalled = @ + 1]
    ELSE [j EXCEPT !.state = "failed", !.stalled = @ + 1]

\* Document.save(): only a modified status is written.
Modified(orig, value) == value # orig

\* Mutation: save() writes the whole document as the processor rebuilt it.
SavedFieldsRewritten(m) == [fields EXCEPT ![m] = "rewritten"]

\* The other paths of a saved document: the processors assign status only,
\* and save() writes the modified paths.
SavedFields(m) == fields

\* The status write of message m.
Store(m, value) ==
  /\ status' = [status EXCEPT ![m] = value]
  /\ fields' = SavedFields(m)

\* The processor threw: the job is retried or failed.
Throw(m) ==
  /\ job' = [job EXCEPT ![m] = MoveToFailed(job[m])]
  /\ proc' = [proc EXCEPT ![m] = IdleProc]

\* ---------------------------------------------------------------- worker
\* A worker slot takes a waiting job.
Dequeue(m) ==
  /\ job[m].state = "waiting"
  /\ SlotFree(Class(m))
  /\ job' = [job EXCEPT ![m].state = "active"]
  /\ proc' = [proc EXCEPT ![m] = [IdleProc EXCEPT !.pc = "load"]]
  /\ UNCHANGED <<usage, orgExists, req, status, delivered, seen, faults, window, unawaited>>
  /\ UNCHANGED <<orgStatus, rate>>
  /\ UNCHANGED <<conn, fields>>

\* findById of the message, then of its organization.  A missing message
\* ends the job; a missing organization marks the message failed (the SMS
\* processor does not await that save).
Load(m) ==
  /\ proc[m].pc = "load"
  /\ \E ok \in Results :
       /\ faults' = Fault(ok)
       /\ IF ~ok
            THEN Throw(m) /\ UNCHANGED status
          ELSE IF status[m] = "absent"
            THEN /\ proc' = [proc EXCEPT ![m].pc = "ack"]
                 /\ UNCHANGED <<job, status>>
          ELSE IF orgExists
            THEN /\ proc' = [proc EXCEPT ![m].pc = "deliver", ![m].loaded = status[m],
                                         ![m].orig = status[m]]
                 /\ UNCHANGED <<job, status>>
          ELSE /\ proc' = [proc EXCEPT ![m].pc = "orgMissing", ![m].loaded = status[m],
                                       ![m].orig = status[m]]
               /\ UNCHANGED <<job, status>>
  /\ UNCHANGED <<usage, orgExists, req, delivered, seen, window, unawaited>>
  /\ UNCHANGED <<orgStatus, rate>>
  /\ UNCHANGED <<conn, fields>>

\* The organization-missing branch: "await email.save()" in the e-mail
\* processor, "smsMessage.save()" in the SMS processor.
AwaitsSave(c) == c = "email"

\* Organization not found: status = "failed", save, return.
OrgMissing(m) ==
  /\ proc[m].pc = "orgMissing"
  /\ IF ~Modified(proc[m].orig, "failed")
       THEN /\ proc' = [proc EXCEPT ![m].pc = "ack"]
            /\ UNCHANGED <<job, status, fields, faults, unawaited>>
     ELSE IF ~AwaitsSave(Class(m))
       THEN /\ unawaited' = [unawaited EXCEPT ![m] = TRUE]
            /\ proc' = [proc EXCEPT ![m].pc = "ack"]
            /\ UNCHANGED <<job, status, fields, faults>>
       ELSE \E ok \in Results :
              /\ faults' = Fault(ok)
              /\ UNCHANGED unawaited
              /\ IF ok
                   THEN /\ Store(m, "failed")
                        /\ proc' = [proc EXCEPT ![m].pc = "ack", ![m].orig = "failed"]
                        /\ UNCHANGED job
                   ELSE Throw(m) /\ UNCHANGED <<status, fields>>
  /\ UNCHANGED <<usage, orgExists, req, delivered, seen, window>>
  /\ UNCHANGED <<orgStatus, rate>>
  /\ UNCHANGED conn

\* The save that was not awaited reaches the store, or rejects unobserved.
SaveLands(m) ==
  /\ unawaited[m]
  /\ \E ok \in Results :
       /\ faults' = Fault(ok)
       /\ IF ok THEN Store(m, "failed") ELSE UNCHANGED <<status, fields>>
  /\ unawaited' = [unawaited EXCEPT ![m] = FALSE]
  /\ UNCHANGED <<usage, orgExists, req, job, proc, delivered, seen, window>>
  /\ UNCHANGED <<orgStatus, rate>>
  /\ UNCHANGED conn

\* Mutation: the callback rejects on transient errors only.
DeliverRejectsTransientOnly(c, result) == c = "email" /\ result = "transient"

\* sendSMSMessage catches the provider's error and returns undefined;
\* transporter.sendMail passes the error to the callback, which rejects.
DeliverRejects(c, result) == c = "email" /\ result # "ok"

\* The provider call.
Deliver(m) ==
  /\ proc[m].pc = "deliver"
  /\ \E result \in Outcomes :
       /\ delivered' = [delivered EXCEPT ![m] = @ + 1]
       /\ seen' = [seen EXCEPT ![m] = @ \cup {result}]
       /\ proc' = [proc EXCEPT ![m].outcome = result,
                               ![m].pc = IF DeliverRejects(Class(m), result)
                                           THEN "markFailed" ELSE "markSent"]
  /\ UNCHANGED <<usage, orgExists, req, status, job, faults, window, unawaited>>
  /\ UNCHANGED <<orgStatus, rate>>
  /\ UNCHANGED <<conn, fields>>

\* After the save of "sent" the processor reads info.messageId (e-mail) or
\* messageInstance.sid (SMS); the latter throws when sendSMSMessage
\* returned undefined.
ResultReadThrows(c, result) == c = "sms" /\ result # "ok"

\* status = "sent", save, log, return.
MarkSent(m) ==
  /\ proc[m].pc = "markSent"
  /\ LET next == IF ResultReadThrows(Class(m), proc[m].outcome)
                   THEN "markFailed" ELSE "ack" IN
     IF ~Modified(proc[m].orig, "sent")
       THEN /\ proc' = [proc EXCEPT ![m].pc = next]
            /\ UNCHANGED <<status, fields, faults>>
       ELSE \E ok \in Results :
              /\ faults' = Fault(ok)
              /\ IF ok
                   THEN /\ Store(m, "sent")
                        /\ proc' = [proc EXCEPT ![m].pc = next, ![m].orig = "sent"]
                   ELSE /\ proc' = [proc EXCEPT ![m].pc = "markFailed"]
                        /\ UNCHANGED <<status, fields>>
  /\ UNCHANGED <<usage, orgExists, req, job, delivered, seen, window, unawaited>>
  /\ UNCHANGED <<orgStatus, rate>>
  /\ UNCHANGED conn

\* The catch block: status = "failed", save, log, return.
MarkFailed(m) ==
  /\ proc[m].pc = "markFailed"
  /\ IF ~Modified(proc[m].orig, "failed")
       THEN /\ proc' = [proc EXCEPT ![m].pc = "ack"]
            /\ UNCHANGED <<job, status, fields, faults>>
       ELSE \E ok \in Results :
              /\ faults' = Fault(ok)
              /\ IF ok
                   THEN /\ Store(m, "failed")
                        /\ proc' = [proc EXCEPT ![m].pc = "ack", ![m].orig = "failed"]
                        /\ UNCHANGED job
                   ELSE Throw(m) /\ UNCHANGED <<status, fields>>
  /\ UNCHANGED <<usage, orgExists, req, delivered, seen, window, unawaited>>
  /\ UNCHANGED <<orgStatus, rate>>
  /\ UNCHANGED conn

\* The processor returned: the job is completed.
Complete(m) ==
  /\ proc[m].pc = "ack"
  /\ job' = [job EXCEPT ![m] = MoveToCompleted(job[m])]
  /\ proc' = [proc EXCEPT ![m] = IdleProc]
  /\ UNCHANGED <<usage, orgExists, req, status, delivered, seen, faults, window, unawaited>>
  /\ UNCHANGED <<orgStatus, rate>>
  /\ UNCHANGED <<conn, fields>>

\* The backoff delay of a retried job elapsed.
Promote(m) ==
  /\ job[m].state = "delayed"
  /\ job' = [job EXCEPT ![m].state = "waiting"]
  /\ UNCHANGED <<usage, orgExists, req, status, proc, delivered, seen, faults, window, unawaited>>
  /\ UNCHANGED <<orgStatus, rate>>
  /\ UNCHANGED <<conn, fields>>

\* The worker process dies while job m is active.
Crash(m) ==
  /\ proc[m].pc \notin {"idle", "dead"}
  /\ faults < MaxFaults
  /\ faults' = faults + 1
  /\ proc' = [proc EXCEPT ![m].pc = "dead"]
  /\ UNCHANGED <<usage, orgExists, req, status, job, delivered, seen, window, unawaited>>
  /\ UNCHANGED <<orgStatus, rate>>
  /\ UNCHANGED <<conn, fields>>

\* The lock of job m expired: the stalled-jobs check of a running worker.
StalledCheck(m) ==
  /\ job[m].state = "active"
  /\ proc[m].pc = "dead"
  /\ job' = [job EXCEPT ![m] = MoveStalled(job[m])]
  /\ proc' = [proc EXCEPT ![m] = IdleProc]
  /\ UNCHANGED <<usage, orgExists, req, status, delivered, seen, faults, window, unawaited>>
  /\ UNCHANGED <<orgStatus, rate>>
  /\ UNCHANGED <<conn, fields>>

\* The organization document is gone when the worker looks it up (no
\* handler deletes it; the processors test for it).
OrganizationRemoved ==
  /\ orgExists
  /\ \E m \in Req : status[m] # "absent"
  /\ orgExists' = FALSE
  /\ UNCHANGED <<usage, req, status, job, proc, delivered, seen, faults, window, unawaited>>
  /\ UNCHANGED <<orgStatus, rate>>
  /\ UNCHANGED <<conn, fields>>

\* The requests whose jobs the worker is followed on.
Followed == 1..MaxJobs

Next ==
  \/ \E r \in Followed, k \in Kinds : Authenticate(r, k)
  \/ \E r \in Req : CreateMessage(r)
  \/ \E r \in Req : EnqueueJob(r)
  \/ \E r \in Req : UpdateUsage(r)
  \/ OrganizationRemoved
  \/ \E m \in Req : Dequeue(m)
  \/ \E m \in Req : Load(m)
  \/ \E m \in Req : OrgMissing(m)
  \/ \E m \in Req : SaveLands(m)
  \/ \E m \in Req : Deliver(m)
  \/ \E m \in Req : MarkSent(m)
  \/ \E m \in Req : MarkFailed(m)
  \/ \E m \in Req : Complete(m)
  \/ \E m \in Req : Promote(m)
  \/ \E m \in Req : Crash(m)
  \/ \E m \in Req : StalledCheck(m)

Spec == Init /\ [][Next]_vars

\* Admission alone, from any value of the counter: the worker neither reads
\* nor writes the counter and the requests.
UsageStart == {0, QuotaLimit - 1, QuotaLimit}

InitAdmission ==
  /\ usage \in [totalEmailsSent : UsageStart, totalSMSSent : {0}]
  /\ orgExists = TRUE
  /\ req = [r \in Req |-> NewReq]
  /\ status = [m \in Req |-> "absent"]
  /\ fields = [m \in Req |-> "absent"]
  /\ job = [m \in Req |-> NoJob]
  /\ proc = [m \in Req |-> IdleProc]
  /\ delivered = [m \in Req |-> 0]
  /\ seen = [m \in Req |-> {}]
  /\ faults = 0
  /\ window = 0
  /\ unawaited = [m \in Req |-> FALSE]
  /\ orgStatus = "active"
  /\ rate = NoRate
  /\ Connected

\* The quota window (a day) elapses.  No code runs on it: the usage
\* sub-document holds no window and nothing resets the counter.
WindowElapses ==
  /\ window < MaxWindows
  /\ window' = window + 1
  /\ UNCHANGED <<usage, orgExists, req, status, job, proc, delivered, seen, faults,
                 unawaited>>
  /\ UNCHANGED <<orgStatus, rate>>
  /\ UNCHANGED <<conn, fields>>

NextAdmission ==
  \/ WindowElapses
  \/ \E r \in Req, k \in Kinds : Authenticate(r, k)
  \/ \E r \in Req : CreateMessage(r)
  \/ \E r \in Req : EnqueueJob(r)
  \/ \E r \in Req : UpdateUsage(r)

AdmissionSpec == InitAdmission /\ [][NextAdmission]_vars

\* The minute of the limiters elapses: the store forgets its hits.
MinuteElapses ==
  /\ rate # NoRate
  /\ rate' = NoRate
  /\ UNCHANGED <<usage, orgExists, req, status, job, proc, delivered, seen, faults,
                 window, unawaited, orgStatus>>
  /\ UNCHANGED <<conn, fields>>

\* Admission for an organization of any status, from the start of a minute
\* or late in a minute in which EmailMax e-mail requests and SmsMax - 1 SMS
\* requests were already made.
RateStart == {NoRate, [hits |-> SmsMax - 1, email |-> EmailMax, sms |-> SmsMax - 1]}

InitGate ==
  /\ usage = NewUsage
  /\ orgExists = TRUE
  /\ req = [r \in Req |-> NewReq]
  /\ status = [m \in Req |-> "absent"]
  /\ fields = [m \in Req |-> "absent"]
  /\ job = [m \in Req |-> NoJob]
  /\ proc = [m \in Req |-> IdleProc]
  /\ delivered = [m \in Req |-> 0]
  /\ seen = [m \in Req |-> {}]
  /\ faults = 0
  /\ window = 0
  /\ unawaited = [m \in Req |-> FALSE]
  /\ orgStatus \in OrgStatuses
  /\ rate \in RateStart
  /\ Connected

NextGate ==
  \/ MinuteElapses
  \/ \E r \in Req, k \in Kinds : Authenticate(r, k)
  \/ \E r \in Req : CreateMessage(r)
  \/ \E r \in Req : EnqueueJob(r)
  \/ \E r \in Req : UpdateUsage(r)

GateSpec == InitGate /\ [][NextGate]_vars

\* Workers that keep running: no crash, fair scheduling of every worker
\* step, every provider call returns; the organization stays in place, so
\* that the organization-missing branch of the processors is never taken.
NextRunning ==
  \/ \E r \in Followed, k \in Kinds : Authenticate(r, k)
  \/ \E r \in Req : CreateMessage(r)
  \/ \E r \in Req : EnqueueJob(r)
  \/ \E r \in Req : UpdateUsage(r)
  \/ \E m \in Req : Dequeue(m)
  \/ \E m \in Req : Load(m)
  \/ \E m \in Req : Deliver(m)
  \/ \E m \in Req : MarkSent(m)
  \/ \E m \in Req : MarkFailed(m)
  \/ \E m \in Req : Complete(m)
  \/ \E m \in Req : Promote(m)

WorkerFairness ==
  \A m \in Req :
    /\ WF_vars(Dequeue(m)) /\ WF_vars(Load(m))
    /\ WF_vars(Deliver(m)) /\ WF_vars(MarkSent(m)) /\ WF_vars(MarkFailed(m))
    /\ WF_vars(Complete(m)) /\ WF_vars(Promote(m))

FairSpec == Init /\ [][NextRunning]_vars /\ WorkerFairness

\* A backlog: one job more than a worker has slots, all of one class,
\* admitted before the worker process started and with the organization
\* document gone since, so that every processor takes its shortest branch;
\* no store or queue operation is rejected and the worker does not crash.
Pool == 1..(Concurrency + 1)

InitPool ==
  /\ usage \in {[totalEmailsSent |-> Concurrency + 1, totalSMSSent |-> 0],
                [totalEmailsSent |-> 0, totalSMSSent |-> Concurrency + 1]}
  /\ orgExists = FALSE
  /\ req = [r \in Pool |->
             [NewReq EXCEPT !.kind = IF usage.totalSMSSent = 0 THEN "send-mail"
                                                              ELSE "send-sms",
                            !.pc = "done", !.resp = "200"]]
  /\ status = [m \in Pool |-> "queued"]
  /\ fields = [m \in Pool |-> "created"]
  /\ job = [m \in Pool |-> [NoJob EXCEPT !.state = "waiting"]]
  /\ proc = [m \in Pool |-> IdleProc]
  /\ delivered = [m \in Pool |-> 0]
  /\ seen = [m \in Pool |-> {}]
  /\ faults = MaxFaults
  /\ window = 0
  /\ unawaited = [m \in Pool |-> FALSE]
  /\ orgStatus = "active"
  /\ rate = NoRate
  /\ Connected

NextPool ==
  \/ \E m \in Pool : Dequeue(m)
  \/ \E m \in Pool : Load(m)
  \/ \E m \in Pool : OrgMissing(m)
  \/ \E m \in Pool : SaveLands(m)
  \/ \E m \in Pool : Complete(m)

PoolSpec == InitPool /\ [][NextPool]_vars

\* ----------------------------------------------------------- connections
\* The connections of a process, from its start.  The server process and the
\* worker process each hold a client and a connection of their own, which go
\* through the same states; one of each is followed here, read by the
\* worker's start and by the server's probe.
NoProbe == [status |-> "none", mongodb |-> FALSE, redis |-> FALSE]

InitConn ==
  /\ usage = NewUsage
  /\ orgExists = TRUE
  /\ req = [r \in Req |-> NewReq]
  /\ status = [m \in Req |-> "absent"]
  /\ fields = [m \in Req |-> "absent"]
  /\ job = [m \in Req |-> NoJob]
  /\ proc = [m \in Req |-> IdleProc]
  /\ delivered = [m \in Req |-> 0]
  /\ seen = [m \in Req |-> {}]
  /\ faults = 0
  /\ window = 0
  /\ unawaited = [m \in Req |-> FALSE]
  /\ orgStatus = "active"
  /\ rate = NoRate
  /\ redis = [status |-> "connecting", isConnected |-> FALSE, drops |-> 0]
  /\ mongo = "connecting"
  /\ boot = "start"
  /\ probe = NoProbe

\* The rest of the system, which the connection steps leave alone.
rest == <<usage, orgExists, req, status, job, proc, delivered, seen, faults,
          window, unawaited, orgStatus, rate, fields>>

\* Mutation: the flag alone.
IsConnectedFlagOnly == redis.isConnected

\* isRedisConnected()
IsRedisConnected == redis.status = "ready" /\ redis.isConnected

\* startWorker after "await connectToDatabase()": it goes on when
\* isRedisConnected(), and otherwise waits for the next "connect" event
\* (redisClient.isOpen is not a property of an ioredis client).
AfterConnectToDatabase == IF IsRedisConnected THEN "created" ELSE "waiting"

\* The process is running (startWorker exits it when MongoDB fails).
Alive == boot # "exit"

\* mongoose.connect resolved; startWorker goes on.
MongoConnects ==
  /\ Alive /\ mongo = "connecting"
  /\ mongo' = "connected"
  /\ boot' = IF boot = "start" THEN AfterConnectToDatabase ELSE boot
  /\ UNCHANGED <<redis, probe, rest>>

\* mongoose.connect rejected: connectToDatabase logs and exits the process.
MongoFails ==
  /\ Alive /\ mongo = "connecting"
  /\ mongo' = "disconnected"
  /\ boot' = "exit"
  /\ UNCHANGED <<redis, probe, rest>>

\* The connection to MongoDB is lost, and found again by the driver.
MongoDrops ==
  /\ Alive /\ mongo = "connected"
  /\ mongo' = "disconnected"
  /\ UNCHANGED <<redis, boot, probe, rest>>

MongoRecovers ==
  /\ Alive /\ mongo = "disconnected"
  /\ mongo' = "connected"
  /\ UNCHANGED <<redis, boot, probe, rest>>

\* The socket is connected: status "connect" and the "connect" event, whose
\* listeners are the module's (isConnected = true) and, when startWorker
\* waits, its resolve.
RedisConnect ==
  /\ Alive /\ redis.status = "connecting"
  /\ redis' = [redis EXCEPT !.status = "connect", !.isConnected = TRUE]
  /\ boot' = IF boot = "waiting" THEN "created" ELSE boot
  /\ UNCHANGED <<mongo, probe, rest>>

\* The ready check passed: status "ready" and the "ready" event.
RedisReady ==
  /\ Alive /\ redis.status = "connect"
  /\ redis' = [redis EXCEPT !.status = "ready", !.isConnected = TRUE]
  /\ UNCHANGED <<mongo, boot, probe, rest>>

\* The socket failed or was closed: the "error" event (when it failed) and
\* status "close" with the "close" event; both listeners clear the flag.
RedisLost ==
  /\ Alive /\ redis.status \in {"connecting", "connect", "ready"}
  /\ redis.drops < MaxDrops
  /\ redis' = [status |-> "close", isConnected |-> FALSE, drops |-> redis.drops + 1]
  /\ UNCHANGED <<mongo, boot, probe, rest>>

\* retryStrategy returns a delay for every attempt: status "reconnecting"
\* and its event, then a new connection attempt.
RedisReconnecting ==
  /\ Alive /\ redis.status = "close"
  /\ redis' = [redis EXCEPT !.status = "reconnecting"]
  /\ UNCHANGED <<mongo, boot, probe, rest>>

RedisRetry ==
  /\ Alive /\ redis.status = "reconnecting"
  /\ redis' = [redis EXCEPT !.status = "connecting"]
  /\ UNCHANGED <<mongo, boot, probe, rest>>

\* GET /ready: 503 when MongoDB is not connected; a Redis that is not
\* connected is logged only.
Ready ==
  /\ Alive
  /\ probe' = [status  |-> IF mongo = "connected" THEN "200" ELSE "503",
               mongodb |-> mongo = "connected",
               redis   |-> IsRedisConnected]
  /\ UNCHANGED <<redis, mongo, boot, rest>>

NextConn ==
  \/ MongoConnects
  \/ MongoFails
  \/ MongoDrops
  \/ MongoRecovers
  \/ RedisConnect
  \/ RedisReady
  \/ RedisLost
  \/ RedisReconnecting
  \/ RedisRetry
  \/ Ready

\* The connections make progress; nothing forces a loss or a probe.
ConnFairness ==
  /\ WF_vars(MongoConnects) /\ WF_vars(MongoRecovers)
  /\ WF_vars(RedisConnect) /\ WF_vars(RedisReady)
  /\ WF_vars(RedisReconnecting) /\ WF_vars(RedisRetry)

ConnSpec == InitConn /\ [][NextConn]_vars /\ ConnFairness

\* ------------------------------------------------------------ properties
Success == {"200", "ok302"}

\* C1: whatever the interleaving of the admission requests, a send-mail
\* request is admitted only within the quota: once it is answered 200 the
\* counter, which includes it, does not exceed the limit (of two concurrent
\* requests at limit - 1, one is admitted and one is answered 429).
C1_QuotaNeverExceeded ==
  \A r \in Req :
    (req[r].kind = "send-mail" /\ req[r].resp = "200")
      => usage.totalEmailsSent <= QuotaLimit

\* C2: the stored status of a message changes only from queued to sent or
\* from queued to failed; a sent or failed status never changes again.
C2_StatusTransitions ==
  [][\A m \in Req :
       /\ status[m] \in Terminal => status'[m] = status[m]
       /\ status[m] = "queued" => status'[m] \in {"queued", "sent", "failed"}]_vars

\* C3: with workers that keep running and are scheduled fairly, every message
\* whose admission returned success eventually has status sent or failed.
C3_AdmittedEventuallyTerminal ==
  \A m \in Req : (req[m].resp \in Success) ~> (status[m] \in Terminal)

\* C4: after a first delivery attempt that failed with a transient error the
\* message is still queued and its job is re-queued for a second attempt (so
\* that a success of the second attempt ends it sent with attempts = 2).
C4_TransientFailureRequeues ==
  \A m \in Req :
    (delivered[m] = 1 /\ seen[m] = {"transient"} /\ proc[m].pc = "idle"
       /\ job[m].stalled = 0)
      => (status[m] = "queued" /\ job[m].state \in {"delayed", "waiting"})

\* C5: a message whose attempts all failed with transient errors is failed
\* only after the third attempt: it is still queued after the first and the
\* second.
C5_FailedOnlyAfterThirdAttempt ==
  \A m \in Req :
    (status[m] = "failed" /\ seen[m] = {"transient"}) => delivered[m] = Attempts

Decision(j) == [retry |-> j.state = "delayed", delay |-> j.delay]

\* The policy of the claim: attempt n, error class e.
ClaimedShouldRetry(n, e) ==
  IF e = "transient" /\ n < Attempts
    THEN [retry |-> TRUE, delay |-> BackoffDelay * Pow2(n - 1)]
    ELSE [retry |-> FALSE, delay |-> 0]

\* C7: the retry decision is a function of the attempt number and the error
\* class of the provider call: a transient error of attempt 1 is retried
\* after 1 s, of attempt 2 after 2 s, of attempt 3 not at all, and a terminal
\* error is never retried.
C7_RetryPolicy ==
  [][\A m \in Req :
       (proc[m].pc \notin {"idle", "dead"} /\ proc'[m].pc = "idle"
          /\ proc[m].outcome \in {"transient", "terminal"})
         => Decision(job'[m])
              = ClaimedShouldRetry(job[m].attemptsMade + 1, proc[m].outcome)]_vars

\* C8 as claimed: the provider is called at most 3 times for a message.
C8_AtMostThreeDeliveries == \A m \in Req : delivered[m] <= Attempts

\* C8 as amended: the provider is called at most 4 times for a message, the
\* 3 attempts of the job and one redelivery after a stall; at most 3 times
\* when the job never stalled.
C8_DeliveryBound ==
  \A m \in Req :
    /\ delivered[m] <= Attempts + MaxStalledCount
    /\ (job[m].stalled = 0 /\ proc[m].pc # "dead") => delivered[m] <= Attempts

C8_Witness ==
  \E m \in Req : delivered[m] = Attempts + MaxStalledCount /\ job[m].stalled = 1

\* C9: when a message is processed again (a retried or redelivered job) and
\* the processor loaded a terminal status, the stored status stays that first
\* terminal outcome whatever the second outcome.
C9_FirstTerminalOutcomeKept ==
  [][\A m \in Req :
       (job[m].attemptsMade + job[m].stalled > 0 /\ proc[m].loaded \in Terminal
          /\ proc[m].outcome # "none")
         => status'[m] = status[m]]_vars

\* C10: a processor that found no message record, or one whose status is
\* already sent or failed, skips the job: it does not call the provider and
\* does not modify the record.
C10_TerminalRecordSkipped ==
  [][\A m \in Req :
       (proc[m].pc \notin {"idle", "dead", "load"} /\ proc[m].loaded # "queued")
         => (delivered'[m] = delivered[m] /\ status'[m] = status[m])]_vars

\* C11: a job whose worker died before acking it becomes visible again (it is
\* put back to wait by the first stalled-jobs check), and the processing of a
\* redelivered job does not change a message that had already reached a
\* terminal status.
C11_RedeliveryHarmless ==
  [][\A m \in Req :
       /\ (proc[m].pc = "dead" /\ job[m].stalled = 0 /\ proc'[m].pc = "idle")
            => job'[m].state = "waiting"
       /\ (job[m].stalled > 0 /\ proc[m].loaded \in Terminal)
            => status'[m] = status[m]]_vars

\* C12: an admission request is answered with success only after the queue
\* accepted the job of its message: a request whose queue.add was rejected
\* is answered with an error, never with success.
C12_SuccessOnlyAfterEnqueue ==
  \A r \in Req : req[r].resp \in Success => job[r].state # "none"

\* C13: a request whose payload fails validation is reported as a validation
\* error (400; send-mail answers 503 first when Redis is not connected) and
\* is never queued: no message record, no job, no success response and so no
\* increment of the counter.
C13_InvalidNeverQueued ==
  \A r \in Req :
    ~req[r].valid
      => /\ status[r] = "absent"
         /\ job[r].state = "none"
         /\ req[r].resp \in {"none", "400", "503"}

\* C14: a send-mail request rejected because the counter is at or above the
\* limit has no side effects: the step that answers 429 leaves the usage
\* counter, the message records and the jobs unchanged, and the request has
\* no record and no job afterwards.
C14_RejectionHasNoSideEffects ==
  [][\A r \in Req :
       req'[r].resp = "429"
         => /\ status'[r] = "absent"
            /\ job'[r].state = "none"
            /\ req[r].resp # "429"
                 => (usage' = usage /\ status' = status /\ job' = job)]_vars

C14_Witness ==
  \E r \in Req :
    /\ req[r].resp = "429" /\ req[r].snap >= QuotaLimit
    /\ status[r] = "absent" /\ job[r].state = "none"

\* C15: the counter is reset when the quota window elapses: the first
\* send-mail request of a window that began during the run is not rejected
\* for the quota, whatever was counted in the windows before.
C15_FirstOfWindowAdmitted ==
  \A r \in Req :
    (req[r].kind = "send-mail" /\ req[r].win > 0
       /\ \A q \in Req : q < r => req[q].win < req[r].win)
      => req[r].resp # "429"

\* C16: the quota is combined over e-mails and SMS: a send-sms request is
\* admitted only while the organization's admitted messages, e-mails plus
\* SMS and this one included, do not exceed the limit.
C16_CombinedQuota ==
  \A r \in Req :
    (req[r].kind = "send-sms" /\ req[r].resp = "200")
      => usage.totalEmailsSent + usage.totalSMSSent <= QuotaLimit

\* The e-mails that were enqueued.
EmailsEnqueued == {m \in Req : Class(m) = "email" /\ job[m].state # "none"}

\* C17: the quota is accounted at admission: whenever no admission is in
\* progress the counter of an existing organization (0 at the start) equals
\* the number of e-mails that were enqueued, whatever became of them; and no
\* step of the worker or of the queue changes the counter.
C17_CounterEqualsEnqueued ==
  [][/\ (orgExists' /\ \A r \in Req : req'[r].pc \in {"idle", "done"})
          => usage'.totalEmailsSent = Cardinality(EmailsEnqueued')
     /\ req' = req => usage' = usage]_vars

\* C18: a message record has status sent only if a provider call for that
\* message returned success: a failed provider call never leaves the record
\* at sent, not even for the time between two writes.
C18_SentOnlyAfterSuccess ==
  \A m \in Req : status[m] = "sent" => "ok" \in seen[m]

\* The steps of a processor that write the status.
WriteSteps == {"orgMissing", "markSent", "markFailed"}

\* C19: the steps of a job are strictly sequential: the status of a message
\* is written by its processor, in a write step that comes after the delivery
\* call, and no status write of the processor is still under way when the
\* job is acked (marked completed), on every branch of both processors.
C19_WriteCompletedBeforeAck ==
  [][\A m \in Req :
       /\ (status[m] # "absent" /\ status'[m] # status[m])
            => proc[m].pc \in WriteSteps
       /\ (job[m].state # "completed" /\ job'[m].state = "completed")
            => ~unawaited[m]]_vars

\* C20: at any time at most 5 e-mail jobs and at most 5 SMS jobs are being
\* processed by the worker process.
C20_AtMostFiveConcurrent ==
  \A c \in {"email", "sms"} : Cardinality(Running(c)) <= Concurrency

C20_Witness ==
  \E c \in {"email", "sms"} :
    /\ Cardinality(Running(c)) = Concurrency
    /\ \E m \in DOMAIN job : job[m].state = "waiting" /\ Class(m) = c

ApiKinds == {"send-mail", "send-sms"}

\* C21: a send request made with the API key of an organization that is not
\* active is rejected with 403: its response is 403, no message record is
\* created and no job is enqueued for it.
C21_InactiveRejected ==
  \A r \in Req :
    (orgStatus # "active" /\ req[r].kind \in ApiKinds /\ req[r].pc # "idle")
      => /\ req[r].pc = "done" => req[r].resp = "403"
         /\ status[r] = "absent"
         /\ job[r].state = "none"

\* C22: within a minute at most 10 e-mail send requests and at most 5 SMS
\* send requests of the organization reach the send-mail and the send-sms
\* handler; a request the limiter answered 429 created no message.
C22_RateLimited ==
  /\ rate.email <= EmailMax
  /\ rate.sms <= SmsMax
  /\ \A r \in Req : req[r].resp = "429rate" => status[r] = "absent"

\* C23: GET /ready answers 503 whenever MongoDB or Redis is not connected,
\* and 200 only when both are connected.
C23_ReadyReflectsDependencies ==
  probe.status # "none"
    => (probe.status = "200" <=> (probe.mongodb /\ probe.redis))

\* C24: the admission steps of an e-mail of send-mail occur in the order
\* quota check, creation of the record (queued), enqueue of the job,
\* increment of the counter, success response; and no processor is started
\* on a job whose message record has not been created.
C24_AdmissionOrder ==
  [][\A r \in Req :
       req'[r].kind = "send-mail"
         => /\ (status[r] = "absent" /\ status'[r] # "absent")
                 => /\ req[r].pc = "authed" /\ ~QuotaExceeded(req[r].snap)
                    /\ status'[r] = "queued" /\ job[r].state = "none"
            /\ (job[r].state = "none" /\ job'[r].state # "none")
                 => (req[r].pc = "created" /\ status[r] = "queued")
            /\ (req[r].resp # "200" /\ req'[r].resp = "200")
                 => /\ req[r].pc = "added" /\ job[r].state # "none"
                    /\ orgExists => usage'.totalEmailsSent = usage.totalEmailsSent + 1
            /\ (usage' # usage /\ req'[r] # req[r]) => req'[r].resp = "200"
            /\ (proc[r].pc = "idle" /\ proc'[r].pc = "load")
                 => status[r] # "absent"]_vars

C24_Witness ==
  \E r \in Req :
    /\ req[r].kind = "send-mail" /\ req[r].resp = "200"
    /\ usage.totalEmailsSent = 1
    /\ proc[r].pc = "load" /\ status[r] = "queued"

\* C25: after its creation a message changes by the status writes of the
\* worker only: no step changes its other fields (to, from, subject,
\* content, organization, createdAt), every change of its status is a write
\* of its processor, and no step of an admission request changes a message
\* that exists.
C25_OnlyStatusChanges ==
  [][\A m \in Req :
       status[m] # "absent"
         => /\ fields'[m] = fields[m]
            /\ status'[m] # status[m] => (proc[m].pc \in WriteSteps \/ unawaited[m])
            /\ req' # req => status'[m] = status[m]]_vars

C25_Witness ==
  \E m \in Req :
    /\ status[m] = "failed" /\ fields[m] = "created"
    /\ "ok" \in seen[m] /\ delivered[m] > 1

\* The states of a job that will be processed (again).
Live == {"waiting", "delayed", "active"}

\* C26: once its admission request has ended, every message with status
\* queued has a job of its class that is waiting, delayed or being
\* processed: no message stays queued with no job that will process it.
C26_QueuedHasLiveJob ==
  \A m \in Req :
    (status[m] = "queued" /\ req[m].pc = "done") => job[m].state \in Live

\* C27: when send-mail answered an error, no job of the request is in the
\* e-mail queue and its e-mail is never handed to the provider.
C27_ErrorLeavesNoJob ==
  \A r \in Req :
    (req[r].kind = "send-mail" /\ req[r].pc = "done" /\ req[r].resp # "200")
      => (job[r].state = "none" /\ delivered[r] = 0)

\* C28: when MongoDB is connected and the Redis client is ready, startWorker
\* eventually creates the workers, at whatever point of the Redis connection
\* sequence it evaluated isRedisConnected(): it does not wait for ever for a
\* "connect" event that has already fired.
C28_WorkersEventuallyCreated ==
  (mongo = "connected" /\ redis.status = "ready") ~> (boot = "created")

C30_OrgMissingFailsWithoutRetry ==
  [][\A m \in Req :
       ( /\ proc[m].pc = "orgMissing"
         /\ proc'[m].pc \notin {"orgMissing", "dead"}
         /\ faults' = faults )
         => /\ proc'[m].pc = "ack"
            /\ job'[m].state = "active"
            /\ status'[m] = "failed"
            /\ delivered' = delivered]_vars

====
